---- MODULE Spec2Model ----
(***************************************************************************)
(* Model of the batch pipeline of the mail server: processExcelFile reads  *)
(* a worksheet, extracts recipient rows, renders one card per row, mails   *)
(* it, and reports progress over a channel ws.                             *)
(*                                                                         *)
(* One run of processExcelFile is modelled.  The worksheet, the file       *)
(* system, the process environment and the nodemailer module are fixed     *)
(* before the run (Init); the outcome of every call into a collaborator    *)
(* (render, sendMail, unlinkSync, ws.send) is chosen when the call is      *)
(* made.  events records every message handed to ws.send, also when the    *)
(* call throws.  The nodemailer package exports createTransport; an        *)
(* environment whose module also has createTransporter is included so that *)
(* the steps behind createTransporter() are part of the model.             *)
(***************************************************************************)
EXTENDS Integers, Sequences, FiniteSets

\* ------------------------------------------------------------------------
\* Bounds
\* ------------------------------------------------------------------------

\* Largest number of worksheet rows, the header row included.
MaxRows == 4

\* ------------------------------------------------------------------------
\* Cell values and strings (strings are sequences of characters)
\* ------------------------------------------------------------------------

Whitespace == {" ", "\t"}

Null == [kind |-> "null"]
Str(s) == [kind |-> "string", s |-> s]
Num(n) == [kind |-> "number", n |-> n]

\* The value of `x?.toString().trim()` when x is null or undefined.
Undefined == <<"undefined">>

Digit(d) == CASE d = 0 -> "0" [] d = 1 -> "1" [] d = 2 -> "2" [] d = 3 -> "3"
              [] d = 4 -> "4" [] d = 5 -> "5" [] d = 6 -> "6" [] d = 7 -> "7"
              [] d = 8 -> "8" [] d = 9 -> "9"

RECURSIVE Digits(_)
Digits(n) == IF n < 10 THEN <<Digit(n)>> ELSE Append(Digits(n \div 10), Digit(n % 10))

\* value.toString() of a non-null cell value.
ToString(v) == IF v.kind = "number" THEN Digits(v.n) ELSE v.s

RECURSIVE TrimStart(_)
TrimStart(s) == IF s # <<>> /\ Head(s) \in Whitespace THEN TrimStart(Tail(s)) ELSE s

RECURSIVE TrimEnd(_)
TrimEnd(s) == IF s # <<>> /\ s[Len(s)] \in Whitespace
              THEN TrimEnd(SubSeq(s, 1, Len(s) - 1))
              ELSE s

\* String.prototype.trim
Trim(s) == TrimEnd(TrimStart(s))

\* row.getCell(k).value?.toString().trim()
CellText(v) == IF v.kind = "null" THEN Undefined ELSE Trim(ToString(v))

\* JavaScript truthiness of the result of CellText: undefined and "" are falsy.
Truthy(t) == t # Undefined /\ t # <<>>

\* ------------------------------------------------------------------------
\* Worksheets
\* ------------------------------------------------------------------------

\* The rows a worksheet is built from: <<name cell, phone cell, email cell>>.
RowChoices ==
  { <<Str(<<"a">>), Num(0), Str(<<"x">>)>>,
    <<Str(<<" ", "b", " ">>), Str(<<"1", " ">>), Str(<<"\t", "y">>)>>,
    <<Null, Str(<<"1">>), Str(<<"x">>)>>,
    <<Str(<<"a">>), Str(<<" ">>), Str(<<"x">>)>>,
    <<Str(<<"b">>), Str(<<"1">>), Str(<<>>)>> }

\* A worksheet is its sequence of rows; row number 1 is the header.
Worksheets == UNION { [1..n -> RowChoices] : n \in 0..MaxRows }

\* Mutant of IsDataRow: the header row is read as a record.
IsAnyRow(rowNumber) == rowNumber > 0

\* if (rowNumber > 1)
IsDataRow(rowNumber) == rowNumber > 1

\* if (name && phone && email)
RowAccepted(name, phone, email) == Truthy(name) /\ Truthy(phone) /\ Truthy(email)

\* The callback of worksheet.eachRow applied to rows 1..n in order.
RECURSIVE EachRow(_, _)
EachRow(sheet, n) ==
  IF n = 0 THEN <<>>
  ELSE LET acc   == EachRow(sheet, n - 1)
           name  == CellText(sheet[n][1])
           phone == CellText(sheet[n][2])
           email == CellText(sheet[n][3])
       IN IF IsDataRow(n) /\ RowAccepted(name, phone, email)
          THEN Append(acc, [name |-> name, phone |-> phone, email |-> email])
          ELSE acc

ExtractRows(sheet) == EachRow(sheet, Len(sheet))

\* ------------------------------------------------------------------------
\* State
\* ------------------------------------------------------------------------

VARIABLES
  worksheet,          \* the first worksheet of the uploaded workbook
  fileReadable,       \* workbook.xlsx.readFile(filePath) resolves
  templateExists,     \* fs.existsSync(assets/template.png)
  processEnv,         \* process.env: which of EMAIL, APP_PASSWORD are set
  nodemailerExports,  \* the functions the nodemailer module exports
  pc,                 \* position of the run of processExcelFile
  rows,               \* the extracted records
  results,            \* { total, success, failed, errors }
  i,                  \* the loop index of the for loop
  generated,          \* the card numbers of the files in generated/
  events,             \* the messages handed to ws.send, in order
  renders,            \* the calls of generatePersonalizedImage, in order
  mails               \* the calls of transporter.sendMail, in order

\* The state of the client (App): its useState cells, the calls of handleUpload
\* made so far, and whether a render of the component has thrown.
VARIABLES
  file,               \* a file is selected (file !== null)
  uploading,          \* useState(false)
  processing,         \* useState(false)
  status,             \* ProcessingStatus | null
  uploadedFile,       \* a file name was stored (uploadedFile !== null)
  runs,               \* the calls of handleUpload: their position and loop index
  crashed             \* a state updater threw while the component rendered

client == <<file, uploading, processing, status, uploadedFile, runs, crashed>>

server == <<worksheet, fileReadable, templateExists, processEnv, nodemailerExports,
            pc, rows, results, i, generated, events, renders, mails>>

vars == <<worksheet, fileReadable, templateExists, processEnv, nodemailerExports,
          pc, rows, results, i, generated, events, renders, mails,
          file, uploading, processing, status, uploadedFile, runs, crashed>>

\* function App(): the initial values of the useState cells.
ClientInit ==
  /\ file = FALSE
  /\ uploading = FALSE
  /\ processing = FALSE
  /\ status = Null
  /\ uploadedFile = FALSE
  /\ runs = <<>>
  /\ crashed = FALSE

environment == <<worksheet, fileReadable, templateExists, processEnv, nodemailerExports>>

Init ==
  /\ worksheet \in Worksheets
  /\ fileReadable \in BOOLEAN
  /\ templateExists \in BOOLEAN
  /\ processEnv \in [EMAIL : BOOLEAN, APP_PASSWORD : BOOLEAN]
  /\ nodemailerExports \in { {"createTransport"}, {"createTransport", "createTransporter"} }
  /\ pc = "readFile"
  /\ rows = <<>>
  /\ results = [total |-> 0, success |-> 0, failed |-> 0, errors |-> <<>>]
  /\ i = 0
  /\ generated = {}
  /\ events = <<>>
  /\ renders = <<>>
  /\ mails = <<>>
  /\ ClientInit

\* ------------------------------------------------------------------------
\* Messages of the progress channel
\* ------------------------------------------------------------------------

\* Mutant of InitialEvent: the message is built before results.total is set.
InitialEventBeforeTotal(res) ==
  [type |-> "progress", total |-> 0, success |-> res.success,
   failed |-> res.failed, errors |-> res.errors, processing |-> TRUE]

\* { type: 'progress', data: { ...results, processing: true } }
InitialEvent(res) ==
  [type |-> "progress", total |-> res.total, success |-> res.success,
   failed |-> res.failed, errors |-> res.errors, processing |-> TRUE]

\* Mutant of ProgressEvent: currentIndex is the loop index itself.
ProgressEventOffByOne(res, index) ==
  [type |-> "progress", total |-> res.total, success |-> res.success,
   failed |-> res.failed, errors |-> res.errors, processing |-> TRUE,
   currentIndex |-> index]

\* { type: 'progress', data: { ...results, processing: true, currentIndex: i + 1 } }
ProgressEvent(res, index) ==
  [type |-> "progress", total |-> res.total, success |-> res.success,
   failed |-> res.failed, errors |-> res.errors, processing |-> TRUE,
   currentIndex |-> index + 1]

\* { type: 'complete', data: { ...results, processing: false } }
CompleteEvent(res) ==
  [type |-> "complete", total |-> res.total, success |-> res.success,
   failed |-> res.failed, errors |-> res.errors, processing |-> FALSE]

\* { type: 'error', data: { message: error.message } }
ErrorEvent(message) == [type |-> "error", message |-> message]

\* ------------------------------------------------------------------------
\* The catch blocks
\* ------------------------------------------------------------------------

\* The catch of the outer try: one error message is handed to ws.send and
\* the error is thrown again.  `sent` is the messages handed to ws.send so far.
\* Whether this ws.send returns or throws, the run ends by throwing.
OuterCatch(sent, message) ==
  /\ events' = Append(sent, ErrorEvent(message))
  /\ pc' = "failed"

\* for (let i = 0; i < rows.length; i++): the step to the next iteration.
LoopNext(index) ==
  /\ i' = index + 1
  /\ pc' = IF index + 1 < Len(rows) THEN "render" ELSE "final"

\* `${row.name}: ${error.message}`
ErrorEntry(row, message) == [name |-> row.name, message |-> message]

\* Mutant of InnerCatch: the failure of a record ends the loop.
InnerCatchBreaks(res, message) ==
  /\ results' = [res EXCEPT !.failed = @ + 1,
                            !.errors = Append(@, ErrorEntry(rows[i + 1], message))]
  /\ i' = Len(rows)
  /\ pc' = "final"

\* The catch of the inner try: the record is counted as failed, its error is
\* recorded and the loop goes on.  `res` is results when the error is thrown.
InnerCatch(res, message) ==
  /\ results' = [res EXCEPT !.failed = @ + 1,
                            !.errors = Append(@, ErrorEntry(rows[i + 1], message))]
  /\ LoopNext(i)

\* ------------------------------------------------------------------------
\* The steps of processExcelFile before the loop
\* ------------------------------------------------------------------------

\* await workbook.xlsx.readFile(filePath)
ReadFile ==
  /\ pc = "readFile"
  /\ IF fileReadable
     THEN pc' = "checkTemplate" /\ UNCHANGED events
     ELSE OuterCatch(events, "File not found")
  /\ UNCHANGED <<client, environment, rows, results, i, generated, renders, mails>>

\* Mutant of TemplateMissing: the template is never checked.
TemplateNeverMissing == FALSE

\* if (!fs.existsSync(templatePath))
TemplateMissing == ~templateExists

CheckTemplate ==
  /\ pc = "checkTemplate"
  /\ IF TemplateMissing
     THEN OuterCatch(events, "Template image not found")
     ELSE pc' = "createTransporter" /\ UNCHANGED events
  /\ UNCHANGED <<client, environment, rows, results, i, generated, renders, mails>>

\* if (!process.env.EMAIL || !process.env.APP_PASSWORD)
CredentialsMissing == ~processEnv.EMAIL \/ ~processEnv.APP_PASSWORD

\* createTransporter(): throws when the credentials are missing, then calls
\* nodemailer.createTransporter, a TypeError when the module has no such export.
CreateTransporter ==
  /\ pc = "createTransporter"
  /\ IF CredentialsMissing
     THEN OuterCatch(events, "Email credentials not configured")
     ELSE IF "createTransporter" \notin nodemailerExports
     THEN OuterCatch(events, "nodemailer.createTransporter is not a function")
     ELSE pc' = "extract" /\ UNCHANGED events
  /\ UNCHANGED <<client, environment, rows, results, i, generated, renders, mails>>

\* worksheet.eachRow(...), results.total = rows.length and the initial
\* ws.send, which returns or throws.
Extract ==
  /\ pc = "extract"
  /\ rows' = ExtractRows(worksheet)
  /\ results' = [total |-> Len(rows'), success |-> 0, failed |-> 0, errors |-> <<>>]
  /\ \E sendReturns \in BOOLEAN :
       IF sendReturns
       THEN /\ events' = Append(events, InitialEvent(results'))
            /\ pc' = IF 0 < Len(rows') THEN "render" ELSE "final"
       ELSE OuterCatch(Append(events, InitialEvent(results')), "ws.send failed")
  /\ UNCHANGED <<client, environment, i, generated, renders, mails>>

\* ------------------------------------------------------------------------
\* The loop over the records
\* ------------------------------------------------------------------------

\* path.join(__dirname, 'generated', `card-${i + 1}.png`), named by its number
OutputPath(index) == index + 1

\* name.replace(/\s+/g, '-')
RECURSIVE ReplaceWhitespace(_)
ReplaceWhitespace(s) ==
  IF s = <<>> THEN <<>>
  ELSE IF Head(s) \in Whitespace
  THEN <<"-">> \o ReplaceWhitespace(TrimStart(Tail(s)))
  ELSE <<Head(s)>> \o ReplaceWhitespace(Tail(s))

\* Mutant of MailOptions: the mail is addressed to the name of the recipient.
MailOptionsToName(recipient, imagePath) ==
  [to |-> recipient.name,
   filename |-> ReplaceWhitespace(recipient.name),
   path |-> imagePath]

\* The mailOptions of sendEmail that depend on the recipient.
MailOptions(recipient, imagePath) ==
  [to |-> recipient.email,
   filename |-> ReplaceWhitespace(recipient.name),
   path |-> imagePath]

\* await generatePersonalizedImage(templatePath, row, outputPath): the image is
\* written to outputPath, or an error is thrown and the inner catch runs.
GenerateImage ==
  /\ pc = "render"
  /\ \E ok \in BOOLEAN :
       /\ renders' = Append(renders, [index |-> i, ok |-> ok])
       /\ IF ok
          THEN /\ generated' = generated \cup {OutputPath(i)}
               /\ pc' = "send"
               /\ UNCHANGED <<results, i>>
          ELSE /\ InnerCatch(results, "render failed")
               /\ UNCHANGED generated
  /\ UNCHANGED <<client, environment, rows, events, mails>>

\* await sendEmail(transporter, row, outputPath) and the rest of the try block:
\* results.success++, fs.unlinkSync(outputPath), ws.send(progress).  A throw of
\* any of them runs the inner catch.
SendEmail ==
  /\ pc = "send"
  /\ \E delivered \in BOOLEAN :
       /\ mails' = Append(mails, [index |-> i, delivered |-> delivered,
                                  options |-> MailOptions(rows[i + 1], OutputPath(i))])
       /\ IF ~delivered
          THEN /\ InnerCatch(results, "send failed")
               /\ UNCHANGED <<generated, events>>
          ELSE LET counted == [results EXCEPT !.success = @ + 1]
               IN \E unlinked \in BOOLEAN :
                    IF ~unlinked
                    THEN /\ InnerCatch(counted, "unlink failed")
                         /\ UNCHANGED <<generated, events>>
                    ELSE /\ generated' = generated \ {OutputPath(i)}
                         /\ events' = Append(events, ProgressEvent(counted, i))
                         /\ \E sendReturns \in BOOLEAN :
                              IF sendReturns
                              THEN results' = counted /\ LoopNext(i)
                              ELSE InnerCatch(counted, "ws.send failed")
  /\ UNCHANGED <<client, environment, rows, renders>>

\* The final ws.send and `return results`; a throw of ws.send runs the outer catch.
SendFinal ==
  /\ pc = "final"
  /\ \E sendReturns \in BOOLEAN :
       IF sendReturns
       THEN /\ events' = Append(events, CompleteEvent(results))
            /\ pc' = "done"
       ELSE OuterCatch(Append(events, CompleteEvent(results)), "ws.send failed")
  /\ UNCHANGED <<client, environment, rows, results, i, generated, renders, mails>>

Next ==
  \/ ReadFile
  \/ CheckTemplate
  \/ CreateTransporter
  \/ Extract
  \/ GenerateImage
  \/ SendEmail
  \/ SendFinal

Spec == Init /\ [][Next]_vars

\* ------------------------------------------------------------------------
\* Vocabulary of the properties
\* ------------------------------------------------------------------------

EventsOfType(type) == { k \in 1..Len(events) : events[k].type = type }

Counted(e) == e.success + e.failed

\* The run has returned or thrown.
Finished == pc \in {"done", "failed"}

\* A fatal precondition fails: the source is unreadable, the template image is
\* missing or a mail credential is absent.
FatalPreconditionFails ==
  ~fileReadable \/ ~templateExists \/ ~processEnv.EMAIL \/ ~processEnv.APP_PASSWORD

\* The run got past the fatal checks: the records were extracted and the
\* initial progress message was handed to the channel.
PastFatalChecks == pc \in {"render", "send", "final", "done"}
                   \/ (pc = "failed" /\ Len(events) > 1)

\* The batch state of the design, read off the position of the run.
BatchState ==
  CASE pc \in {"readFile", "checkTemplate", "createTransporter"} -> "Pending"
    [] pc \in {"extract", "render", "send", "final"} -> "Running"
    [] pc = "done" -> "Completed"
    [] pc = "failed" -> "Failed"

\* ------------------------------------------------------------------------
\* C1
\* ------------------------------------------------------------------------

\* C1 (as claimed): every progress event has success + failed equal to its
\* currentIndex (0 for the initial event, which carries none) and
\* currentIndex <= total, and the completion event has success + failed = total.
C1_CountersMatchIndex ==
  \A k \in 1..Len(events) :
    LET e == events[k] IN
      /\ e.type = "progress" =>
           IF "currentIndex" \in DOMAIN e
           THEN Counted(e) = e.currentIndex /\ e.currentIndex <= e.total
           ELSE Counted(e) = 0
      /\ e.type = "complete" => Counted(e) = e.total

\* ------------------------------------------------------------------------
\* C2
\* ------------------------------------------------------------------------

\* C2 (as claimed): a run that completes over N records has handed out exactly
\* N + 1 progress events, then exactly one completion event, the progress
\* events with non-decreasing currentIndex.
C2_ProgressPerRecord ==
  pc = "done" =>
    /\ Cardinality(EventsOfType("progress")) = Len(rows) + 1
    /\ Cardinality(EventsOfType("complete")) = 1
    /\ events[Len(events)].type = "complete"
    /\ \A k, l \in EventsOfType("progress") :
         (k < l /\ "currentIndex" \in DOMAIN events[k])
           => events[k].currentIndex <= events[l].currentIndex

\* ------------------------------------------------------------------------
\* C3
\* ------------------------------------------------------------------------

\* The step is a render that throws, or a sendMail that throws.
RenderFailed == Len(renders') = Len(renders) + 1 /\ ~renders'[Len(renders')].ok
DeliveryFailed == Len(mails') = Len(mails) + 1 /\ ~mails'[Len(mails')].delivered

\* Every record before the loop index was rendered, and mailed if its render
\* succeeded.
AllAttemptedBelow(n) ==
  \A j \in 0..(n - 1) :
    /\ \E k \in 1..Len(renders) : renders[k].index = j
    /\ \A k \in 1..Len(renders) :
         (renders[k].index = j /\ renders[k].ok)
           => (pc = "send" /\ i = j) \/ \E m \in 1..Len(mails) : mails[m].index = j

\* C3: a render failure or a delivery failure on record i adds exactly one to
\* failed, leaves success alone and moves the loop to record i + 1 (or to the
\* final message after the last record); when the loop is over every record
\* was rendered, every rendered record was mailed, and a run that returns has
\* handed out the completion event.
C3_FailureIsolation ==
  /\ [][(RenderFailed \/ DeliveryFailed) =>
          /\ results'.failed = results.failed + 1
          /\ results'.success = results.success
          /\ Len(results'.errors) = Len(results.errors) + 1
          /\ i' = i + 1
          /\ pc' = IF i' < Len(rows) THEN "render" ELSE "final"]_vars
  /\ [](pc \in {"render", "send"} => AllAttemptedBelow(i))
  /\ [](pc \in {"final", "done"} => i = Len(rows) /\ AllAttemptedBelow(Len(rows)))
  /\ [](pc = "done" => EventsOfType("complete") # {})

\* Three records, the send of the second throws: success = 2, failed = 1 and
\* one error entry, naming the second record.
C3_Witness ==
  /\ pc = "done"
  /\ Len(rows) = 3
  /\ Len(mails) = 3
  /\ ~mails[2].delivered /\ mails[3].delivered
  /\ results.success = 2 /\ results.failed = 1
  /\ Len(results.errors) = 1
  /\ results.errors[1].name = rows[2].name

\* ------------------------------------------------------------------------
\* C4
\* ------------------------------------------------------------------------

\* C4: when a fatal precondition fails, no progress or completion event is
\* handed out and no record is rendered or mailed at any point of the run,
\* the run ends by throwing, and it has then handed out exactly one error event.
C4_FatalPrecondition ==
  FatalPreconditionFails =>
    /\ pc \in {"readFile", "checkTemplate", "createTransporter", "failed"}
    /\ EventsOfType("progress") = {} /\ EventsOfType("complete") = {}
    /\ renders = <<>> /\ mails = <<>> /\ generated = {}
    /\ Len(events) <= 1
    /\ pc = "failed" => (Len(events) = 1 /\ events[1].type = "error")

\* The template image is missing, everything else is in place, and the run
\* has ended.
C4_Witness ==
  /\ pc = "failed"
  /\ fileReadable /\ ~templateExists
  /\ processEnv.EMAIL /\ processEnv.APP_PASSWORD
  /\ Len(worksheet) > 1
  /\ events = <<ErrorEvent("Template image not found")>>

\* ------------------------------------------------------------------------
\* C5
\* ------------------------------------------------------------------------

\* C5 (as claimed): a run that got past the fatal checks and has ended has
\* handed out exactly one completion event, as its last event, with
\* processing = false and the counters of results.
C5_CompletionLast ==
  (Finished /\ PastFatalChecks) =>
    /\ Cardinality(EventsOfType("complete")) = 1
    /\ LET e == events[Len(events)] IN
         /\ e.type = "complete"
         /\ e.processing = FALSE
         /\ e.total = results.total
         /\ e.success = results.success
         /\ e.failed = results.failed

\* ------------------------------------------------------------------------
\* C6
\* ------------------------------------------------------------------------

\* C6 (as claimed): a run that has ended either reported a failed fatal
\* precondition before any record was processed, or completed after all
\* records; with a readable source, the template in place and both credentials
\* set it has returned and handed out the completion event.
C6_EndsOneOfTwoWays ==
  Finished =>
    /\ \/ pc = "failed" /\ FatalPreconditionFails /\ renders = <<>>
       \/ pc = "done" /\ i = Len(rows) /\ EventsOfType("complete") # {}
    /\ ~FatalPreconditionFails => pc = "done"

\* ------------------------------------------------------------------------
\* C7
\* ------------------------------------------------------------------------

\* C7 (as claimed): once the delivery attempt of a record is over, its image
\* is gone from generated/: no image of an earlier record is there when the
\* next record begins, nor when the run has ended.
C7_ArtifactRemoved ==
  /\ \A m \in 1..Len(mails) : mails[m].options.path \notin generated
  /\ pc = "render" => generated = {}
  /\ Finished => generated = {}

\* ------------------------------------------------------------------------
\* C8
\* ------------------------------------------------------------------------

Present(v) == v.kind # "null"

\* Some character of the cell's text is no whitespace.
NonBlank(v) == \E k \in 1..Len(ToString(v)) : ToString(v)[k] \notin Whitespace

\* The numbers of the data rows with all three fields present and non-blank.
CompleteRowNumbers ==
  { n \in 2..Len(worksheet) : \A c \in 1..3 : Present(worksheet[n][c]) /\ NonBlank(worksheet[n][c]) }

\* The k-th smallest member of the set S of row numbers.
KthOf(S, k) == CHOOSE n \in S : Cardinality({ m \in S : m <= n }) = k

\* The text of a cell without its leading and trailing whitespace: the part
\* from its first to its last non-whitespace character.
Stripped(v) ==
  LET t == ToString(v)
      solid == { k \in 1..Len(t) : t[k] \notin Whitespace }
      first == CHOOSE k \in solid : \A l \in solid : k <= l
      last == CHOOSE k \in solid : \A l \in solid : l <= k
  IN SubSeq(t, first, last)

\* C8: once extracted, rows is, in row order, the data rows (row number above
\* 1) whose three fields are all present and non-blank, each with its fields
\* trimmed; total counts exactly these rows in every event, and only extracted
\* records are rendered, counted as failed or named in errors.
C8_Extraction ==
  PastFatalChecks =>
    LET complete == CompleteRowNumbers
        count == Cardinality(complete)
    IN /\ Len(rows) = count
       /\ \A k \in 1..Len(rows) :
            LET source == worksheet[KthOf(complete, k)] IN
              /\ rows[k].name = Stripped(source[1])
              /\ rows[k].phone = Stripped(source[2])
              /\ rows[k].email = Stripped(source[3])
       /\ results.total = count
       /\ \A k \in EventsOfType("progress") \cup EventsOfType("complete") :
            events[k].total = count
       /\ \A k \in 1..Len(renders) : renders[k].index < Len(rows)
       /\ results.failed = Len(results.errors)
       /\ \A k \in 1..Len(results.errors) :
            \E j \in 1..Len(rows) : results.errors[k].name = rows[j].name

\* A run over a worksheet whose header row looks like a record, with two
\* complete data rows (one needing trimming) and one incomplete data row.
C8_Witness ==
  /\ pc = "done"
  /\ Len(worksheet) = 4
  /\ \A c \in 1..3 : Present(worksheet[1][c]) /\ NonBlank(worksheet[1][c])
  /\ Len(rows) = 2
  /\ results.total = 2
  /\ \E n \in CompleteRowNumbers : worksheet[n][1] # Str(Stripped(worksheet[n][1]))
  /\ \E n \in 2..4 : n \notin CompleteRowNumbers /\ n < KthOf(CompleteRowNumbers, 2)

\* ------------------------------------------------------------------------
\* C9
\* ------------------------------------------------------------------------

\* C9 (as claimed): the batch state only moves Pending -> Running,
\* Running -> Completed and Pending -> Failed; Completed and Failed are never
\* left, and records are rendered and mailed only in Running.
C9_StateMachine ==
  [][/\ \/ BatchState' = BatchState
        \/ BatchState = "Pending" /\ BatchState' \in {"Running", "Failed"}
        \/ BatchState = "Running" /\ BatchState' = "Completed"
     /\ (renders' # renders \/ mails' # mails) => BatchState = "Running"]_vars

\* ------------------------------------------------------------------------
\* C10
\* ------------------------------------------------------------------------

Delivered == { m \in 1..Len(mails) : mails[m].delivered }

\* C10: the mails are sent in record order with at most one per record, each
\* to the email of its record and only after the render of that record
\* succeeded, and success is the number of records whose mail was delivered.
C10_OneMailPerRecord ==
  /\ \A m \in 1..Len(mails) :
       /\ mails[m].index < Len(rows)
       /\ mails[m].options.to = rows[mails[m].index + 1].email
       /\ \E k \in 1..Len(renders) : renders[k].index = mails[m].index /\ renders[k].ok
  /\ \A m, n \in 1..Len(mails) : m < n => mails[m].index < mails[n].index
  /\ \A k, l \in 1..Len(renders) : k < l => renders[k].index < renders[l].index
  /\ results.success = Cardinality(Delivered)

\* A finished run with a delivered mail, a mail whose send threw and a record
\* whose render threw (which got no mail).
C10_Witness ==
  /\ pc = "done"
  /\ Len(rows) = 3
  /\ Len(mails) = 2
  /\ Cardinality(Delivered) = 1
  /\ results.success = 1
  /\ \E k \in 1..Len(renders) : ~renders[k].ok

\* ------------------------------------------------------------------------
\* C11
\* ------------------------------------------------------------------------

\* The progress events that report a record (those carrying currentIndex).
RecordEvents == { k \in EventsOfType("progress") : "currentIndex" \in DOMAIN events[k] }

\* C11: the k-th render is that of record k, and it starts only when no mail
\* is pending and every earlier record has had its render and, if rendered,
\* its delivery attempt; a mail is sent for the record just rendered; the
\* progress events come in the order of the records they report, each for a
\* record whose mail was delivered.
C11_Sequential ==
  /\ [][/\ Len(renders') > Len(renders) =>
             /\ pc = "render"
             /\ renders' = Append(renders, renders'[Len(renders')])
             /\ renders'[Len(renders')].index = Len(renders)
             /\ \A k \in 1..Len(renders) :
                  renders[k].ok => \E m \in 1..Len(mails) : mails[m].index = renders[k].index
        /\ Len(mails') > Len(mails) =>
             /\ pc = "send"
             /\ mails' = Append(mails, mails'[Len(mails')])
             /\ mails'[Len(mails')].index = renders[Len(renders)].index
             /\ renders[Len(renders)].ok]_vars
  /\ [](\A k, l \in RecordEvents : k < l => events[k].currentIndex < events[l].currentIndex)
  /\ [](\A k \in RecordEvents :
          \E m \in Delivered : mails[m].index + 1 = events[k].currentIndex)

\* Three records were rendered and mailed in turn and two of them reported.
C11_Witness ==
  /\ pc = "done"
  /\ Len(renders) = 3 /\ Len(mails) = 3
  /\ Cardinality(RecordEvents) = 2
  /\ \E k \in RecordEvents : events[k].currentIndex = 3

\* ------------------------------------------------------------------------
\* C12
\* ------------------------------------------------------------------------

\* The calls of loadImage(templatePath): the first statement of every call of
\* generatePersonalizedImage.
TemplateLoads == Len(renders)

\* C12 (as claimed): the template image is loaded at most once in a run.
C12_TemplateLoadedOnce == TemplateLoads <= 1

\* ------------------------------------------------------------------------
\* C14
\* ------------------------------------------------------------------------

\* C14: in a run that got past the fatal checks the first event is a progress
\* event with total = the number of extracted records, success = 0,
\* failed = 0, processing = true and no currentIndex; total is the same in
\* every later progress and completion event; and nothing is rendered or
\* mailed before that first event.
C14_InitialEvent ==
  /\ PastFatalChecks =>
       /\ events # <<>>
       /\ events[1].type = "progress"
       /\ events[1].total = Len(rows)
       /\ events[1].success = 0 /\ events[1].failed = 0
       /\ events[1].processing = TRUE
       /\ "currentIndex" \notin DOMAIN events[1]
       /\ \A k \in EventsOfType("progress") \cup EventsOfType("complete") :
            events[k].total = events[1].total
  /\ (renders # <<>> \/ mails # <<>>) => (events # <<>> /\ events[1].type = "progress")

\* A finished run over two records: the first event announces total = 2 and
\* the later events repeat it.
C14_Witness ==
  /\ pc = "done"
  /\ Len(rows) = 2
  /\ Len(events) >= 3
  /\ events[1].total = 2 /\ events[1].success = 0 /\ events[1].failed = 0
  /\ events[Len(events)].type = "complete" /\ events[Len(events)].total = 2

\* ------------------------------------------------------------------------
\* C15
\* ------------------------------------------------------------------------

\* The records (loop indices) whose render threw or whose sendMail threw.
RenderFailures == { renders[k].index : k \in { n \in 1..Len(renders) : ~renders[n].ok } }
DeliveryFailures == { mails[m].index : m \in { n \in 1..Len(mails) : ~mails[n].delivered } }

\* C15 (as claimed): errors has exactly failed entries; its k-th entry carries
\* the name of the k-th record whose render or delivery failed and the message
\* of that failure; records whose mail was delivered add no entry.
C15_ErrorsList ==
  LET failures == RenderFailures \cup DeliveryFailures IN
    /\ Len(results.errors) = results.failed
    /\ Len(results.errors) = Cardinality(failures)
    /\ \A k \in 1..Cardinality(failures) :
         LET j == KthOf(failures, k) IN
           /\ results.errors[k].name = rows[j + 1].name
           /\ results.errors[k].message =
                IF j \in RenderFailures THEN "render failed" ELSE "send failed"

\* ------------------------------------------------------------------------
\* C16
\* ------------------------------------------------------------------------

\* C16 (as claimed): an error event is the only event of its run: it is never
\* handed out together with a progress or completion event.
C16_ErrorEventAlone ==
  EventsOfType("error") # {} => Len(events) = 1

\* ------------------------------------------------------------------------
\* C17
\* ------------------------------------------------------------------------

\* C17 (as claimed): the mails of two different records of a batch never carry
\* the same attachment file name.
C17_UniqueAttachmentNames ==
  \A m, n \in 1..Len(mails) :
    m # n => mails[m].options.filename # mails[n].options.filename

\* ------------------------------------------------------------------------
\* C18
\* ------------------------------------------------------------------------

\* The records the loop is done with.
RecordsProcessed == i

\* C18 (as claimed): no record is counted twice: success + failed never
\* exceeds the number of records processed so far, nor total.
C18_CountedOnce ==
  /\ results.success + results.failed <= RecordsProcessed
  /\ results.success + results.failed <= results.total

\* ------------------------------------------------------------------------
\* The client: App, handleUpload, handleProcess, resetForm
\* ------------------------------------------------------------------------

\* Largest number of clicks on Process File.
MaxRuns == 2

\* mockData.length
MockDataLength == 5

\* { ...prev, ...changes }
Spread(prev, changes) ==
  [k \in DOMAIN prev \cup DOMAIN changes |->
     IF k \in DOMAIN changes THEN changes[k] ELSE prev[k]]

\* setStatus({ total: mockData.length, success: 0, failed: 0, processing: true })
StartStatus == [total |-> MockDataLength, success |-> 0, failed |-> 0, processing |-> TRUE]

\* prev => ({ ...prev!, success: prev!.success + (success ? 1 : 0),
\*            failed: prev!.failed + (success ? 0 : 1), currentIndex: i + 1 })
RecordUpdater(prev, success, index) ==
  Spread(prev, [success |-> prev.success + (IF success THEN 1 ELSE 0),
                failed |-> prev.failed + (IF success THEN 0 ELSE 1),
                currentIndex |-> index + 1])

\* prev => ({ ...prev!, processing: false })
FinishUpdater(prev) == Spread(prev, [processing |-> FALSE])

\* disabled={uploading || processing} of the Process File button
ProcessDisabled == uploading \/ processing

\* The calls of handleUpload that have not returned.
InFlight == { r \in 1..Len(runs) : runs[r].pc # "done" }

\* handleFileSelect / handleDrop: setFile(...)
SelectFile ==
  /\ ~crashed
  /\ ~file
  /\ file' = TRUE
  /\ UNCHANGED <<uploading, processing, status, uploadedFile, runs, crashed, server>>

\* A click on Process File: handleUpload up to its first await (fetch).
HandleUpload ==
  /\ ~crashed
  /\ file
  /\ ~ProcessDisabled
  /\ Len(runs) < MaxRuns
  /\ uploading' = TRUE
  /\ runs' = Append(runs, [pc |-> "fetch", i |-> 0, stale |-> FALSE])
  /\ UNCHANGED <<file, processing, status, uploadedFile, crashed, server>>

\* The upload request of run r settles.  On an error handleUpload alerts and
\* its finally runs setUploading(false); otherwise it stores the file name and
\* handleProcess runs up to the first timer of its loop.
UploadSettles(r) ==
  /\ ~crashed
  /\ runs[r].pc = "fetch"
  /\ \E ok \in BOOLEAN :
       IF ok
       THEN /\ uploadedFile' = TRUE
            /\ processing' = TRUE
            /\ status' = StartStatus
            /\ runs' = [runs EXCEPT ![r].pc = "loop"]
            /\ UNCHANGED uploading
       ELSE /\ uploading' = FALSE
            /\ runs' = [runs EXCEPT ![r].pc = "done"]
            /\ UNCHANGED <<uploadedFile, processing, status>>
  /\ UNCHANGED <<file, crashed, server>>

\* A timer of the loop of handleProcess of run r fires: the updater of record
\* i runs against the current status and throws when that is null, which
\* takes the component down; after the last record the run also applies the
\* finishing updater and its finally blocks run setProcessing(false) and
\* setUploading(false).
ProcessRecord(r) ==
  /\ ~crashed
  /\ runs[r].pc = "loop"
  /\ \E success \in BOOLEAN :
       IF status = Null
       THEN /\ crashed' = TRUE
            /\ UNCHANGED <<status, processing, uploading, runs>>
       ELSE LET updated == RecordUpdater(status, success, runs[r].i) IN
            IF runs[r].i + 1 < MockDataLength
            THEN /\ status' = updated
                 /\ runs' = [runs EXCEPT ![r].i = @ + 1]
                 /\ UNCHANGED <<processing, uploading, crashed>>
            ELSE /\ status' = FinishUpdater(updated)
                 /\ processing' = FALSE
                 /\ uploading' = FALSE
                 /\ runs' = [runs EXCEPT ![r].i = @ + 1, ![r].pc = "done"]
                 /\ UNCHANGED crashed
  /\ UNCHANGED <<file, uploadedFile, server>>

\* A click on Reset: resetForm.  The calls of handleUpload in flight go on.
ResetForm ==
  /\ ~crashed
  /\ file
  /\ file' = FALSE
  /\ uploadedFile' = FALSE
  /\ status' = Null
  /\ processing' = FALSE
  /\ uploading' = FALSE
  /\ runs' = [r \in 1..Len(runs) |->
                IF runs[r].pc # "done" THEN [runs[r] EXCEPT !.stale = TRUE] ELSE runs[r]]
  /\ UNCHANGED <<crashed, server>>

\* The client alone: no batch is running on the server.
AppInit ==
  /\ ClientInit
  /\ worksheet = <<>>
  /\ fileReadable = FALSE
  /\ templateExists = FALSE
  /\ processEnv = [EMAIL |-> FALSE, APP_PASSWORD |-> FALSE]
  /\ nodemailerExports = {"createTransport"}
  /\ pc = "readFile"
  /\ rows = <<>>
  /\ results = [total |-> 0, success |-> 0, failed |-> 0, errors |-> <<>>]
  /\ i = 0
  /\ generated = {}
  /\ events = <<>>
  /\ renders = <<>>
  /\ mails = <<>>

AppNext ==
  \/ SelectFile
  \/ HandleUpload
  \/ \E r \in 1..Len(runs) : UploadSettles(r)
  \/ \E r \in 1..Len(runs) : ProcessRecord(r)
  \/ ResetForm

AppSpec == AppInit /\ [][AppNext]_vars

\* ------------------------------------------------------------------------
\* C19
\* ------------------------------------------------------------------------

\* C19 (as claimed): no updater of handleProcess is applied to a null status,
\* and a status set to null by resetForm is not set again by a call of
\* handleUpload that was in flight at the reset.
C19_ResetSafe ==
  /\ [](~crashed)
  /\ [][(status = Null /\ status' # Null) =>
          \E r \in 1..Len(runs) : runs[r].pc # runs'[r].pc /\ ~runs[r].stale]_vars

\* ------------------------------------------------------------------------
\* C20
\* ------------------------------------------------------------------------

\* C20 (as claimed): at most one call of handleUpload is in flight, the
\* Process File button is disabled while one is, and the displayed
\* success + failed never exceeds total.
C20_SingleRun ==
  /\ Cardinality(InFlight) <= 1
  /\ InFlight # {} => ProcessDisabled
  /\ status # Null => status.success + status.failed <= status.total

====
